---- MODULE Spec2Model ----
(***************************************************************************)
(* Statistics / ranking handlers and the user caches of                    *)
(* src/app/stats_handler.go, as a state machine.                           *)
(*                                                                         *)
(* Strings that the code only orders or compares (user names, emoji        *)
(* names) are natural numbers standing for their place in lexicographic    *)
(* order; 0 is the empty string "", the smallest string and Go's zero      *)
(* value.                                                                  *)
(***************************************************************************)
EXTENDS Integers, Sequences, FiniteSets, TLC

\* ------------------------------------------------------------------ bounds
MaxUsers == 2
MaxStreams == 2
MaxRows == 2
MaxWrites == 1
MaxIconWrites == 2
MaxImages == 1
MaxEntries == 3
MaxScore == 1
MaxReactions == 3
MaxEmoji == 2

EmptyString == 0

UserIDs == 1..MaxUsers
StreamIDs == 1..MaxStreams
RowIDs == 1..MaxRows

\* users.name of the user with this id: the order of the names is the reverse
\* of the order of the ids, so that sorting by name differs from sorting by id
NameOf(u) == MaxUsers + 1 - u

\* a user name / a stream id with no row in the store
NoSuchUsername == MaxUsers + 1
NoSuchStream == MaxStreams + 1

Usernames == {NameOf(u) : u \in UserIDs}

NumProcs == 2
Procs == 1..NumProcs

\* Uploaded images are numbered; image 0 has the bytes of fallbackImage.
Images == 0..MaxImages

\* Hex digests are numbered too.  fallbackHash is the constant of the source,
\* the digest of fallbackImage; Sha256Hex gives the digest of an image, with
\* no two of the few images colliding.
fallbackHash == 0
Sha256Hex(image) == fallbackHash + image

VARIABLES
  db,       \* the relational store: committed rows, plus ver, the number of commits
  ret,      \* the result of the last sequential call (SpecRank)
  pc,       \* pc[p]: where request p stands in its handler
  arg,      \* arg[p]: the request's parameters
  tx,       \* tx[p]: the handler's transaction: <<>> before its first read, then <<snapshot>>
  fnTx,     \* fnTx[p]: the transaction of the ranking function p runs inside singleflight
  sfm,      \* userRankingSingleflight's map entry for "user_ranking": <<>> or <<call>>
  calls,    \* calls[c]: the singleflight call object created by request c
  myCall,   \* myCall[p]: the call request p created or joined, 0 for none
  rankRes,  \* rankRes[p]: <<>> or <<what the ranking step returned to p>>
  resp,     \* resp[p]: the response of request p
  seen,     \* seen[p]: versions of the store read through the handler's transaction (history)
  started,  \* started[p]: the store version, and whether no call was in flight, when p called getUserRanking (history)
  redis,          \* redisConn: redis[u] is <<>> or <<the value under icon_hash_u>>
  userCache,      \* userCache[u]: <<>> or <<UserModel>>
  userFillCache,  \* userFillCache[u]: <<>> or <<User>>
  themeCache,     \* themeCache.m[u]: <<>> or <<ThemeModel>>
  themeMutex,     \* themeCache.RWMutex: the requests holding it to read, to write
  userModel,      \* userModel[p], themeModel[p], iconHash[p]: locals of the read path
  themeModel,
  iconHash,
  filled,         \* filled[p]: <<>> or <<the User fillUserResponse returned to p>>
  hashString,     \* hashString[p], iconID[p]: locals of postIconHandler
  iconID,
  iconSeq,        \* AUTO_INCREMENT counter of the icons table
  hist,           \* the icon rows committed so far, in commit order (history)
  returned,       \* returned[u]: place in hist of the latest icon write of u whose handler has returned (history)
  invalidatedAt,  \* invalidatedAt[u]: Len(hist) at the last userFillCache.Delete(u) (history)
  trace,          \* trace[p]: what request p has done and what failed under it (history)
  after,          \* after[p]: returned[u] when p called fillUserResponse (history)
  userSeq,        \* AUTO_INCREMENT counter of the users table
  cancelled       \* the requests whose context has been cancelled

seqVars == <<ret>>
procVars == <<pc, arg, tx, fnTx, myCall, rankRes, resp, seen, started>>
sfVars == <<sfm, calls>>
cacheVars == <<redis, userCache, userFillCache, themeCache>>
iconLocals == <<userModel, themeModel, iconHash, filled, hashString, iconID>>
iconHistory == <<iconSeq, hist, returned, invalidatedAt, trace, after>>
iconVars == <<cacheVars, iconLocals, iconHistory, userSeq, themeMutex>>
rankVars == <<ret, fnTx, sfVars, myCall, rankRes, seen, started, cancelled>>
vars == <<db, ret, pc, arg, tx, fnTx, sfm, calls, myCall, rankRes, resp, seen, started,
          iconVars, cancelled>>

\* ------------------------------------------------------------- the store
UserRows == {[id |-> u, name |-> NameOf(u)] : u \in UserIDs}
ThemeRows == {[id |-> u, user_id |-> u, dark_mode |-> (u % 2 = 1)] : u \in UserIDs}

RECURSIVE SumOf(_, _)
SumOf(f, S) ==
  IF S = {} THEN 0
  ELSE LET x == CHOOSE y \in S : TRUE IN f[x] + SumOf(f, S \ {x})

Max1(n) == IF n = 0 THEN 1 ELSE n

ReactionsOf(d, l) == {r \in d.reactions : r.livestream_id = l}
LivecommentsOf(d, l) == {c \in d.livecomments : c.livestream_id = l}
StreamsOfUser(d, u) == {l \in d.livestreams : l.user_id = u}

\* SUM(r.id) over the rows of
\*   users u LEFT JOIN livestreams l LEFT JOIN reactions r LEFT JOIN livecomments lc
\* that belong to user u: each stream contributes the product of its reactions
\* and its livecomments (a missing side joins as one NULL row)
JoinedSumReactionIds(d, u) ==
  LET ls == {l.id : l \in StreamsOfUser(d, u)}
      perStream == [l \in ls |->
         SumOf([r \in ReactionsOf(d, l) |-> r.id], ReactionsOf(d, l))
           * Max1(Cardinality(LivecommentsOf(d, l)))]
  IN SumOf(perStream, ls)

\* SUM(lc.tip) over the same joined rows
JoinedSumTips(d, u) ==
  LET ls == {l.id : l \in StreamsOfUser(d, u)}
      perStream == [l \in ls |->
         SumOf([c \in LivecommentsOf(d, l) |-> c.tip], LivecommentsOf(d, l))
           * Max1(Cardinality(ReactionsOf(d, l)))]
  IN SumOf(perStream, ls)

\* one UserScore per user, as sqlx scans the grouped query into the struct: the
\* query selects u.id, reaction_count and total_tips; no column fills Username
UserScoreOf(d, u) ==
  [ID |-> u.id,
   Username |-> EmptyString,
   ReactionCount |-> JoinedSumReactionIds(d, u.id),
   TotalTips |-> JoinedSumTips(d, u.id)]

\* the rows of a set in the order of a key that is unique in the set
RECURSIVE SeqByKey(_, _)
SeqByKey(key, S) ==
  IF S = {} THEN <<>>
  ELSE LET x == CHOOSE y \in S : \A z \in S : key[y] <= key[z]
       IN <<x>> \o SeqByKey(key, S \ {x})

UserScores(d) ==
  LET rows == SeqByKey([u \in d.users |-> u.id], d.users)
  IN [i \in 1..Len(rows) |-> UserScoreOf(d, rows[i])]

\* ------------------------------------------------------------- rankings
\* UserRanking.Less and LivestreamRanking.Less, on the indices of r
UserRankingLess(r, i, j) ==
  IF r[i].Score = r[j].Score THEN r[i].Username < r[j].Username
  ELSE r[i].Score < r[j].Score

\* (streams compared by score alone)
LivestreamRankingLessByScore(r, i, j) == r[i].Score < r[j].Score

LivestreamRankingLess(r, i, j) ==
  IF r[i].Score = r[j].Score THEN r[i].LivestreamID < r[j].LivestreamID
  ELSE r[i].Score < r[j].Score

Arrangements(n) ==
  {f \in [1..n -> 1..n] : \A i, j \in 1..n : i # j => f[i] # f[j]}

\* sort.Sort(r) with less[<<i, j>>] = r.Less(i, j): r rearranged so that no
\* entry is less than an entry before it.  Two entries neither of which is
\* less than the other have the same score and the same key, so they are the
\* same record and every such arrangement is the same sequence.
SortBy(r, less) ==
  LET n == Len(r)
      f == CHOOSE g \in Arrangements(n) :
             \A a, b \in 1..n : a < b => ~less[<<g[b], g[a]>>]
  IN [k \in 1..n |-> r[f[k]]]

\* the body of the function getUserRanking hands to singleflight, on a snapshot
UserRankingOf(d) ==
  LET userScores == UserScores(d)
      ranking == [i \in 1..Len(userScores) |->
         [Username |-> userScores[i].Username,
          Score |-> userScores[i].ReactionCount + userScores[i].TotalTips]]
  IN SortBy(ranking, [ij \in (DOMAIN ranking) \X (DOMAIN ranking) |->
                      UserRankingLess(ranking, ij[1], ij[2])])

\* reactionCounts[id] and tipSums[id], zero for an id the grouped query has no row for
ReactionCount(d, l) == Cardinality(ReactionsOf(d, l))
\* (the tips summed over the join with the reactions, as the user query does)
TipSumJoined(d, l) ==
  SumOf([c \in LivecommentsOf(d, l) |-> c.tip], LivecommentsOf(d, l))
    * Max1(Cardinality(ReactionsOf(d, l)))

TipSum(d, l) == SumOf([c \in LivecommentsOf(d, l) |-> c.tip], LivecommentsOf(d, l))

LivestreamRankingOf(d) ==
  LET livestreams == SeqByKey([l \in d.livestreams |-> l.id], d.livestreams)
      ranking == [i \in 1..Len(livestreams) |->
         [LivestreamID |-> livestreams[i].id,
          Score |-> ReactionCount(d, livestreams[i].id) + TipSum(d, livestreams[i].id)]]
  IN SortBy(ranking, [ij \in (DOMAIN ranking) \X (DOMAIN ranking) |->
                      LivestreamRankingLess(ranking, ij[1], ij[2])])

\* the scan from the highest end: rank starts at 1 and grows by one for every
\* entry passed before the target is met
RECURSIVE UserRankScan(_, _, _, _)
UserRankScan(ranking, username, i, rank) ==
  IF i < 1 THEN rank
  ELSE IF ranking[i].Username = username THEN rank
  ELSE UserRankScan(ranking, username, i - 1, rank + 1)

\* (the scan run from the low end)
UserRankFromLowEnd(ranking, username) ==
  LET at == {i \in DOMAIN ranking : ranking[i].Username = username}
  IN IF at = {} THEN Len(ranking) + 1 ELSE CHOOSE i \in at : \A k \in at : i <= k

UserRank(ranking, username) == UserRankScan(ranking, username, Len(ranking), 1)

RECURSIVE LivestreamRankScan(_, _, _, _)
LivestreamRankScan(ranking, livestreamID, i, rank) ==
  IF i < 1 THEN rank
  ELSE IF ranking[i].LivestreamID = livestreamID THEN rank
  ELSE LivestreamRankScan(ranking, livestreamID, i - 1, rank + 1)

LivestreamRank(ranking, livestreamID) ==
  LivestreamRankScan(ranking, livestreamID, Len(ranking), 1)

\* ------------------------------------------------- statistics of one entity
ViewersOf(d, l) == {h \in d.viewers : h.livestream_id = l}
ReportsOf(d, l) == {r \in d.reports : r.livestream_id = l}
UserByName(d, username) == {u \in d.users : u.name = username}

\* reactions joined to the streams of the users of that name
ReactionsOfUsername(d, username) ==
  {r \in d.reactions :
     \E u \in UserByName(d, username) : \E l \in StreamsOfUser(d, u.id) :
        r.livestream_id = l.id}

EmojiCount(rs, e) == Cardinality({r \in rs : r.emoji_name = e})

\* (ties broken towards the least label: ORDER BY COUNT(*) DESC, emoji_name ASC)
FavoriteEmojiLeast(d, username) ==
  LET rs == ReactionsOfUsername(d, username)
      names == {r.emoji_name : r \in rs}
  IN IF names = {} THEN EmptyString
     ELSE CHOOSE e \in names : \A f \in names \ {e} :
            \/ EmojiCount(rs, e) > EmojiCount(rs, f)
            \/ EmojiCount(rs, e) = EmojiCount(rs, f) /\ e < f

\* GROUP BY emoji_name ORDER BY COUNT(*) DESC, emoji_name DESC LIMIT 1;
\* with no row the variable keeps Go's zero value
FavoriteEmoji(d, username) ==
  LET rs == ReactionsOfUsername(d, username)
      names == {r.emoji_name : r \in rs}
  IN IF names = {} THEN EmptyString
     ELSE CHOOSE e \in names : \A f \in names \ {e} :
            \/ EmojiCount(rs, e) > EmojiCount(rs, f)
            \/ EmojiCount(rs, e) = EmojiCount(rs, f) /\ e > f

\* the response of getUserStatisticsHandler for a user found in snapshot d,
\* given the ranking getUserRanking returned
UserStatisticsOf(d, ranking, username) ==
  LET user == CHOOSE u \in UserByName(d, username) : TRUE
      livestreams == {l.id : l \in StreamsOfUser(d, user.id)}
      comments == {c \in d.livecomments : c.livestream_id \in livestreams}
  IN [status |-> 200,
      rank |-> UserRank(ranking, username),
      viewers_count |-> SumOf([l \in livestreams |-> Cardinality(ViewersOf(d, l))], livestreams),
      total_reactions |-> Cardinality(ReactionsOfUsername(d, username)),
      total_livecomments |-> Cardinality(comments),
      total_tip |-> SumOf([c \in comments |-> c.tip], comments),
      favorite_emoji |-> FavoriteEmoji(d, username)]

MaxOf(S) == IF S = {} THEN 0 ELSE CHOOSE x \in S : \A y \in S : y <= x

\* the response of getLivestreamStatisticsHandler for a stream found in snapshot d
LivestreamStatisticsOf(d, ranking, livestreamID) ==
  [status |-> 200,
   rank |-> LivestreamRank(ranking, livestreamID),
   viewers_count |-> Cardinality(ViewersOf(d, livestreamID)),
   max_tip |-> MaxOf({c.tip : c \in LivecommentsOf(d, livestreamID)}),
   total_reactions |-> ReactionCount(d, livestreamID),
   total_reports |-> Cardinality(ReportsOf(d, livestreamID))]

HTTPError(code) == [status |-> code]

\* ------------------------------------------------------------ store contents
SeqsUpTo(S, n) == UNION {[1..k -> S] : k \in 0..n}

\* tip of the livecomment with this id, emoji of the reaction with this id
TipOf(i) == i
EmojiOf(i) == 1 + (i % 2)

ReactionRows(rs) ==
  {[id |-> i, livestream_id |-> rs[i], emoji_name |-> EmojiOf(i)] : i \in DOMAIN rs}
LivecommentRows(cs) ==
  {[id |-> i, livestream_id |-> cs[i], tip |-> TipOf(i)] : i \in DOMAIN cs}

Store(owner, rs, cs) ==
  [users |-> UserRows,
   themes |-> ThemeRows,
   icons |-> {},
   livestreams |-> {[id |-> l, user_id |-> owner[l]] : l \in StreamIDs},
   reactions |-> ReactionRows(rs),
   livecomments |-> LivecommentRows(cs),
   viewers |-> {[id |-> 1, livestream_id |-> 1]},
   reports |-> {[id |-> 1, livestream_id |-> 1]},
   ver |-> 0]

\* every store of the bounded size: each stream owned by some user, up to
\* MaxRows reactions and up to MaxRows livecomments spread over the streams
RankStores ==
  {Store(owner, rs, cs) :
     owner \in [StreamIDs -> UserIDs],
     rs \in SeqsUpTo(StreamIDs, MaxRows),
     cs \in SeqsUpTo(StreamIDs, MaxRows)}

\* stream l belongs to user ((l - 1) mod MaxUsers) + 1; one livecomment on stream 1
InitialStore ==
  Store([l \in StreamIDs |-> ((l - 1) % MaxUsers) + 1], <<>>, <<1>>)

InitRequests ==
  /\ pc = [p \in Procs |-> "idle"]
  /\ arg = [p \in Procs |-> [op |-> "none"]]
  /\ tx = [p \in Procs |-> <<>>]
  /\ fnTx = [p \in Procs |-> <<>>]
  /\ myCall = [p \in Procs |-> 0]
  /\ rankRes = [p \in Procs |-> <<>>]
  /\ resp = [p \in Procs |-> [status |-> 0]]
  /\ seen = [p \in Procs |-> {}]
  /\ started = [p \in Procs |-> <<>>]
  /\ sfm = <<>>
  /\ calls = [p \in Procs |-> [created |-> FALSE, done |-> FALSE, val |-> <<>>]]
  /\ redis = [u \in UserIDs |-> <<>>]
  /\ userCache = [u \in UserIDs |-> <<>>]
  /\ userFillCache = [u \in UserIDs |-> <<>>]
  /\ themeCache = [u \in UserIDs |-> <<>>]
  /\ themeMutex = [readers |-> {}, writer |-> {}]
  /\ userModel = [p \in Procs |-> <<>>]
  /\ themeModel = [p \in Procs |-> <<>>]
  /\ iconHash = [p \in Procs |-> <<>>]
  /\ filled = [p \in Procs |-> <<>>]
  /\ hashString = [p \in Procs |-> <<>>]
  /\ iconID = [p \in Procs |-> 0]
  /\ iconSeq = 0
  /\ hist = <<>>
  /\ returned = [u \in UserIDs |-> 0]
  /\ invalidatedAt = [u \in UserIDs |-> 0]
  /\ trace = [p \in Procs |-> <<>>]
  /\ cancelled = {}
  /\ after = [p \in Procs |-> 0]

\* ------------------------------------- the handlers run alone (SpecRank)
\* getUserRanking with no other caller: singleflight runs the function at once
RankGetUserRanking ==
  /\ ret' = [op |-> "getUserRanking",
             userScores |-> UserScores(db),
             ranking |-> UserRankingOf(db)]
  /\ UNCHANGED <<iconVars, cancelled, db, procVars, sfVars>>

RankGetUserStatistics(username) ==
  /\ ret' = IF UserByName(db, username) = {}
            THEN [op |-> "getUserStatistics", username |-> username,
                  resp |-> HTTPError(400)]
            ELSE [op |-> "getUserStatistics", username |-> username,
                  ranking |-> UserRankingOf(db),
                  resp |-> UserStatisticsOf(db, UserRankingOf(db), username)]
  /\ UNCHANGED <<iconVars, cancelled, db, procVars, sfVars>>

RankGetLivestreamStatistics(livestreamID) ==
  /\ ret' = IF \A l \in db.livestreams : l.id # livestreamID
            THEN [op |-> "getLivestreamStatistics", livestream_id |-> livestreamID,
                  resp |-> HTTPError(400)]
            ELSE [op |-> "getLivestreamStatistics", livestream_id |-> livestreamID,
                  ranking |-> LivestreamRankingOf(db),
                  resp |-> LivestreamStatisticsOf(db, LivestreamRankingOf(db), livestreamID)]
  /\ UNCHANGED <<iconVars, cancelled, db, procVars, sfVars>>

InitRank ==
  /\ db \in RankStores
  /\ userSeq = MaxUsers
  /\ ret = [op |-> "none"]
  /\ InitRequests

NextRank ==
  \/ RankGetUserRanking
  \/ \E username \in Usernames \cup {NoSuchUsername} : RankGetUserStatistics(username)
  \/ \E l \in StreamIDs \cup {NoSuchStream} : RankGetLivestreamStatistics(l)

SpecRank == InitRank /\ [][NextRank]_vars

\* getLivestreamStatisticsHandler alone, over the same stores
NextLivestream ==
  \E l \in StreamIDs \cup {NoSuchStream} : RankGetLivestreamStatistics(l)

SpecLivestream == InitRank /\ [][NextLivestream]_vars

\* ------------------------------ a ranking computed twice (SpecTwice)
\* A query with no ORDER BY may give its rows in any order, and sort.Sort is
\* not stable: these are all the rankings a computation may end with (the
\* entries of the rows taken in every order, every sorted arrangement of each).
RowOrders(S) ==
  {q \in [1..Cardinality(S) -> S] : \A i, j \in DOMAIN q : i # j => q[i] # q[j]}

SortOutcomes(r, less) ==
  {[k \in 1..Len(r) |-> r[f[k]]] :
     f \in {g \in Arrangements(Len(r)) :
              \A a, b \in 1..Len(r) : a < b => ~less[<<g[b], g[a]>>]}}

UserRankingOutcomes(d) ==
  LET rows == CHOOSE q \in RowOrders(d.users) : TRUE
      scores == [i \in DOMAIN rows |-> UserScoreOf(d, rows[i])]
      entries == [i \in DOMAIN rows |->
                    [Username |-> scores[i].Username,
                     Score |-> scores[i].ReactionCount + scores[i].TotalTips]]
  IN UNION {LET ranking == [i \in DOMAIN rows |-> entries[order[i]]]
            IN SortOutcomes(ranking, [ij \in (DOMAIN ranking) \X (DOMAIN ranking) |->
                                      UserRankingLess(ranking, ij[1], ij[2])]) :
            order \in Arrangements(Len(rows))}

LivestreamRankingOutcomes(d) ==
  LET rows == CHOOSE q \in RowOrders(d.livestreams) : TRUE
      entries == [i \in DOMAIN rows |->
                    [LivestreamID |-> rows[i].id,
                     Score |-> ReactionCount(d, rows[i].id) + TipSum(d, rows[i].id)]]
  IN UNION {LET ranking == [i \in DOMAIN rows |-> entries[order[i]]]
            IN SortOutcomes(ranking, [ij \in (DOMAIN ranking) \X (DOMAIN ranking) |->
                                      LivestreamRankingLess(ranking, ij[1], ij[2])]) :
            order \in Arrangements(Len(rows))}

\* getUserRanking run twice, one call after the other, on the same store
\* (each store is tried once)
RankUserRankingTwice ==
  /\ ret.op = "none"
  /\ LET outcomes == UserRankingOutcomes(db)
     IN \E first \in outcomes : \E second \in outcomes :
          ret' = [op |-> "userRankingTwice", first |-> first, second |-> second]
  /\ UNCHANGED <<iconVars, cancelled, db, procVars, sfVars>>

\* the ranking of getLivestreamStatisticsHandler built twice on the same store
RankLivestreamRankingTwice ==
  /\ ret.op = "none"
  /\ LET outcomes == LivestreamRankingOutcomes(db)
     IN \E first \in outcomes : \E second \in outcomes :
          ret' = [op |-> "livestreamRankingTwice", first |-> first, second |-> second]
  /\ UNCHANGED <<iconVars, cancelled, db, procVars, sfVars>>

NextTwice ==
  \/ RankUserRankingTwice
  \/ RankLivestreamRankingTwice

SpecTwice == InitRank /\ [][NextTwice]_vars

\* -------------------------- the favorite emoji alone (SpecEmoji)
\* the stores of InitialStore's users and streams with up to MaxReactions
\* reactions, each on any stream and with any of the emoji names 1..MaxEmoji
EmojiNames == 1..MaxEmoji

EmojiStores ==
  {[InitialStore EXCEPT !.reactions =
      {[id |-> i, livestream_id |-> ls[i], emoji_name |-> es[i]] : i \in DOMAIN ls}] :
     ls \in SeqsUpTo(StreamIDs, MaxReactions),
     es \in [1..MaxReactions -> EmojiNames]}

InitEmoji ==
  /\ db \in EmojiStores
  /\ userSeq = MaxUsers
  /\ ret = [op |-> "none"]
  /\ InitRequests

NextEmoji ==
  \E username \in Usernames : RankGetUserStatistics(username)

SpecEmoji == InitEmoji /\ [][NextEmoji]_vars

\* ------------------------------------------- the rank scans alone (SpecScan)
\* every ranking of up to MaxEntries entries, one entry per key, in strictly
\* ascending order of Less, as sort.Sort leaves it
UserRankingEntries == [Username : 1..MaxEntries, Score : 0..MaxScore]
LivestreamRankingEntries == [LivestreamID : 1..MaxEntries, Score : 0..MaxScore]

SortedUserRankings ==
  {r \in SeqsUpTo(UserRankingEntries, MaxEntries) :
     \A i, j \in DOMAIN r : i < j =>
        r[i].Username # r[j].Username /\ UserRankingLess(r, i, j)}

SortedLivestreamRankings ==
  {r \in SeqsUpTo(LivestreamRankingEntries, MaxEntries) :
     \A i, j \in DOMAIN r : i < j =>
        r[i].LivestreamID # r[j].LivestreamID /\ LivestreamRankingLess(r, i, j)}

\* the targets: every key a ranking may hold, and one that none holds
ScanTargets == 1..(MaxEntries + 1)

InitScan ==
  /\ db = InitialStore
  /\ userSeq = MaxUsers
  /\ ret \in {[op |-> "userRanking", ranking |-> r, target |-> t] :
                r \in SortedUserRankings, t \in ScanTargets}
          \cup {[op |-> "livestreamRanking", ranking |-> r, target |-> t] :
                r \in SortedLivestreamRankings, t \in ScanTargets}
  /\ InitRequests

\* the loop of getUserStatisticsHandler over the ranking
ScanUserRanking ==
  /\ ret.op = "userRanking"
  /\ ret' = [op |-> "userRank", ranking |-> ret.ranking, target |-> ret.target,
             rank |-> UserRank(ret.ranking, ret.target)]
  /\ UNCHANGED <<iconVars, cancelled, db, procVars, sfVars>>

\* the loop of getLivestreamStatisticsHandler over the ranking
ScanLivestreamRanking ==
  /\ ret.op = "livestreamRanking"
  /\ ret' = [op |-> "livestreamRank", ranking |-> ret.ranking, target |-> ret.target,
             rank |-> LivestreamRank(ret.ranking, ret.target)]
  /\ UNCHANGED <<iconVars, cancelled, db, procVars, sfVars>>

NextScan ==
  \/ ScanUserRanking
  \/ ScanLivestreamRanking

SpecScan == InitScan /\ [][NextScan]_vars

\* --------------------------------------------- the handlers, step by step
\* (every query reads the latest committed rows)
TxViewReadCommitted(t) == db

\* What a query on a transaction reads: BeginTxx(ctx, nil) asks for the
\* store's default isolation, MySQL's REPEATABLE READ, under which the first
\* read of a transaction fixes the snapshot every later read of it sees.
TxView(t) == IF t = <<>> THEN db ELSE t[1]

CallsInFlight == {c \in Procs : calls[c].created /\ ~calls[c].done}

\* Requests are interchangeable, so they are let in in the order of their
\* numbers: every run is a renaming of one of these.
MayStart(p) == pc[p] = "idle" /\ \A q \in Procs : q < p => pc[q] # "idle"

\* the handler returns: the response goes out, the deferred Rollback ends
\* the transaction
Finish(p, response) ==
  /\ resp' = [resp EXCEPT ![p] = response]
  /\ pc' = [pc EXCEPT ![p] = "done"]
  /\ tx' = [tx EXCEPT ![p] = <<>>]

\* getUserStatisticsHandler: session verified, BeginTxx
StartUserStatistics(p, username) ==
  /\ MayStart(p)
  /\ pc' = [pc EXCEPT ![p] = "us_user"]
  /\ arg' = [arg EXCEPT ![p] = [op |-> "getUserStatistics", username |-> username]]
  /\ UNCHANGED <<iconVars, cancelled, db, ret, tx, fnTx, sfVars, myCall, rankRes, resp, seen, started>>

\* (the handler goes on to the ranking whatever the lookup gave)
UserStatisticsGetUserUnchecked(p) ==
  /\ pc[p] = "us_user"
  /\ LET d == TxView(tx[p]) IN
       /\ seen' = [seen EXCEPT ![p] = @ \cup {d.ver}]
       /\ tx' = [tx EXCEPT ![p] = <<d>>]
       /\ pc' = [pc EXCEPT ![p] = "us_ranking"]
       /\ UNCHANGED resp
  /\ UNCHANGED <<iconVars, cancelled, db, ret, arg, fnTx, sfVars, myCall, rankRes, started>>

\* SELECT * FROM users WHERE name = ?
UserStatisticsGetUser(p) ==
  /\ pc[p] = "us_user"
  /\ LET d == TxView(tx[p]) IN
       /\ seen' = [seen EXCEPT ![p] = @ \cup {d.ver}]
       /\ IF UserByName(d, arg[p].username) = {}
          THEN Finish(p, HTTPError(400))
          ELSE /\ tx' = [tx EXCEPT ![p] = <<d>>]
               /\ pc' = [pc EXCEPT ![p] = "us_ranking"]
               /\ UNCHANGED resp
  /\ UNCHANGED <<iconVars, cancelled, db, ret, arg, fnTx, sfVars, myCall, rankRes, started>>

\* the query fails with an error other than sql.ErrNoRows
UserStatisticsGetUserFails(p) ==
  /\ pc[p] = "us_user"
  /\ Finish(p, HTTPError(500))
  /\ UNCHANGED <<iconVars, cancelled, db, ret, arg, fnTx, sfVars, myCall, rankRes, seen, started>>

\* the handler calls getUserRanking
CallGetUserRanking(p) ==
  /\ pc[p] = "us_ranking"
  /\ pc' = [pc EXCEPT ![p] = "sf_do"]
  /\ started' = [started EXCEPT ![p] =
                 <<[ver |-> db.ver, alone |-> CallsInFlight = {}]>>]
  /\ UNCHANGED <<iconVars, cancelled, db, ret, arg, tx, fnTx, sfVars, myCall, rankRes, resp, seen>>

\* (a Do that never joins: every caller runs the function itself)
SingleflightDoAlone(p) ==
  /\ pc[p] = "sf_do"
  /\ calls' = [calls EXCEPT ![p] = [created |-> TRUE, done |-> FALSE, val |-> <<>>]]
  /\ sfm' = <<p>>
  /\ myCall' = [myCall EXCEPT ![p] = p]
  /\ pc' = [pc EXCEPT ![p] = "fn_users"]
  /\ UNCHANGED <<iconVars, cancelled, db, ret, arg, tx, fnTx, rankRes, resp, seen, started>>

\* singleflight.Group.Do, under the group's mutex: join the call in the map,
\* or put a new call in the map and go on to run the function
SingleflightDo(p) ==
  /\ pc[p] = "sf_do"
  /\ IF sfm # <<>>
     THEN /\ myCall' = [myCall EXCEPT ![p] = sfm[1]]
          /\ pc' = [pc EXCEPT ![p] = "sf_wait"]
          /\ UNCHANGED sfVars
     ELSE /\ calls' = [calls EXCEPT ![p] = [created |-> TRUE, done |-> FALSE, val |-> <<>>]]
          /\ sfm' = <<p>>
          /\ myCall' = [myCall EXCEPT ![p] = p]
          /\ pc' = [pc EXCEPT ![p] = "fn_users"]
  /\ UNCHANGED <<iconVars, cancelled, db, ret, arg, tx, fnTx, rankRes, resp, seen, started>>

\* the function: BeginTxx, SELECT id, name FROM users
RankingFnSelectUsers(p) ==
  /\ pc[p] = "fn_users"
  /\ fnTx' = [fnTx EXCEPT ![p] = <<TxView(fnTx[p])>>]
  /\ pc' = [pc EXCEPT ![p] = "fn_scores"]
  /\ UNCHANGED <<iconVars, cancelled, db, ret, arg, tx, sfVars, myCall, rankRes, resp, seen, started>>

\* BeginTxx or the first query fails: the function returns (nil, err)
RankingFnFails(p) ==
  /\ pc[p] = "fn_users"
  /\ calls' = [calls EXCEPT ![p].val = <<[err |-> TRUE, cause |-> "store"]>>]
  /\ pc' = [pc EXCEPT ![p] = "fn_return"]
  /\ UNCHANGED <<iconVars, cancelled, db, ret, arg, tx, fnTx, sfm, myCall, rankRes, resp, seen, started>>

\* (the function runs its queries with the context of the request that
\* started it: cancelled, they fail)
RankingFnScoresRequestCtx(p) ==
  /\ pc[p] = "fn_scores"
  /\ LET d == TxView(fnTx[p]) IN
       calls' = [calls EXCEPT ![p].val =
                   IF p \in cancelled
                   THEN <<[err |-> TRUE, cause |-> "cancelled"]>>
                   ELSE <<[err |-> FALSE, ranking |-> UserRankingOf(d),
                           vers |-> {fnTx[p][1].ver, d.ver}]>>]
  /\ fnTx' = [fnTx EXCEPT ![p] = <<>>]
  /\ pc' = [pc EXCEPT ![p] = "fn_return"]
  /\ UNCHANGED <<iconVars, cancelled, db, ret, arg, tx, sfm, myCall, rankRes, resp, seen, started>>

\* the grouped score query, the entries, sort.Sort; the function returns
RankingFnScores(p) ==
  /\ pc[p] = "fn_scores"
  /\ LET d == TxView(fnTx[p]) IN
       calls' = [calls EXCEPT ![p].val =
                   <<[err |-> FALSE, ranking |-> UserRankingOf(d),
                      vers |-> {fnTx[p][1].ver, d.ver}]>>]
  /\ fnTx' = [fnTx EXCEPT ![p] = <<>>]
  /\ pc' = [pc EXCEPT ![p] = "fn_return"]
  /\ UNCHANGED <<iconVars, cancelled, db, ret, arg, tx, sfm, myCall, rankRes, resp, seen, started>>

\* (an epilogue that leaves the key in the map)
SingleflightDoneKeepsKey(p) ==
  /\ pc[p] = "fn_return"
  /\ calls' = [calls EXCEPT ![p].done = TRUE]
  /\ rankRes' = [rankRes EXCEPT ![p] = calls[p].val]
  /\ pc' = [pc EXCEPT ![p] = "us_rank"]
  /\ UNCHANGED <<iconVars, cancelled, db, ret, arg, tx, fnTx, sfm, myCall, resp, seen, started>>

\* doCall's epilogue under the mutex: the call is done, its key leaves the map
SingleflightDone(p) ==
  /\ pc[p] = "fn_return"
  /\ calls' = [calls EXCEPT ![p].done = TRUE]
  /\ sfm' = IF sfm = <<p>> THEN <<>> ELSE sfm
  /\ rankRes' = [rankRes EXCEPT ![p] = calls[p].val]
  /\ pc' = [pc EXCEPT ![p] = "us_rank"]
  /\ UNCHANGED <<iconVars, cancelled, db, ret, arg, tx, fnTx, myCall, resp, seen, started>>

\* a caller that joined: c.wg.Wait() returns once the call is done
SingleflightWait(p) ==
  /\ pc[p] = "sf_wait"
  /\ calls[myCall[p]].done
  /\ rankRes' = [rankRes EXCEPT ![p] = calls[myCall[p]].val]
  /\ pc' = [pc EXCEPT ![p] = "us_rank"]
  /\ UNCHANGED <<iconVars, cancelled, db, ret, arg, tx, fnTx, sfVars, myCall, resp, seen, started>>

\* back in the handler: the error check, the rank scan, the remaining
\* queries on the handler's transaction, the response; the queries run with
\* the context of the request and fail once it is cancelled
UserStatisticsAggregate(p) ==
  /\ pc[p] = "us_rank"
  /\ LET d == TxView(tx[p]) IN
       IF rankRes[p][1].err \/ p \in cancelled
       THEN Finish(p, HTTPError(500)) /\ UNCHANGED seen
       ELSE /\ Finish(p, UserStatisticsOf(d, rankRes[p][1].ranking, arg[p].username))
            /\ seen' = [seen EXCEPT ![p] = @ \cup {d.ver}]
  /\ UNCHANGED <<iconVars, cancelled, db, ret, arg, fnTx, sfVars, myCall, rankRes, started>>

\* getLivestreamStatisticsHandler: session verified, the id parsed, BeginTxx
StartLivestreamStatistics(p, livestreamID) ==
  /\ MayStart(p)
  /\ pc' = [pc EXCEPT ![p] = "ls_get"]
  /\ arg' = [arg EXCEPT ![p] = [op |-> "getLivestreamStatistics",
                                livestream_id |-> livestreamID]]
  /\ UNCHANGED <<iconVars, cancelled, db, ret, tx, fnTx, sfVars, myCall, rankRes, resp, seen, started>>

\* (a stream request that goes on into the user ranking's singleflight group)
LivestreamStatisticsGetThenGroup(p) ==
  /\ pc[p] = "ls_get"
  /\ LET d == TxView(tx[p]) IN
       /\ seen' = [seen EXCEPT ![p] = @ \cup {d.ver}]
       /\ IF \A l \in d.livestreams : l.id # arg[p].livestream_id
          THEN Finish(p, HTTPError(400))
          ELSE /\ tx' = [tx EXCEPT ![p] = <<d>>]
               /\ pc' = [pc EXCEPT ![p] = "sf_do"]
               /\ UNCHANGED resp
  /\ UNCHANGED <<iconVars, cancelled, db, ret, arg, fnTx, sfVars, myCall, rankRes, started>>

\* SELECT * FROM livestreams WHERE id = ?
LivestreamStatisticsGet(p) ==
  /\ pc[p] = "ls_get"
  /\ LET d == TxView(tx[p]) IN
       /\ seen' = [seen EXCEPT ![p] = @ \cup {d.ver}]
       /\ IF \A l \in d.livestreams : l.id # arg[p].livestream_id
          THEN Finish(p, HTTPError(400))
          ELSE /\ tx' = [tx EXCEPT ![p] = <<d>>]
               /\ pc' = [pc EXCEPT ![p] = "ls_ranking"]
               /\ UNCHANGED resp
  /\ UNCHANGED <<iconVars, cancelled, db, ret, arg, fnTx, sfVars, myCall, rankRes, started>>

LivestreamStatisticsGetFails(p) ==
  /\ pc[p] = "ls_get"
  /\ Finish(p, HTTPError(500))
  /\ UNCHANGED <<iconVars, cancelled, db, ret, arg, fnTx, sfVars, myCall, rankRes, seen, started>>

\* the streams, the two grouped queries, the entries, sort.Sort: all in the
\* handler, on the handler's transaction, with no singleflight group
LivestreamStatisticsRanking(p) ==
  /\ pc[p] = "ls_ranking"
  /\ LET d == TxView(tx[p]) IN
       /\ rankRes' = [rankRes EXCEPT ![p] =
                        <<[err |-> FALSE, ranking |-> LivestreamRankingOf(d),
                           vers |-> {d.ver}]>>]
       /\ seen' = [seen EXCEPT ![p] = @ \cup {d.ver}]
  /\ pc' = [pc EXCEPT ![p] = "ls_rank"]
  /\ UNCHANGED <<iconVars, cancelled, db, ret, arg, tx, fnTx, sfVars, myCall, resp, started>>

\* the rank scan, the remaining queries, Commit, the response
LivestreamStatisticsAggregate(p) ==
  /\ pc[p] = "ls_rank"
  /\ LET d == TxView(tx[p]) IN
       /\ Finish(p, LivestreamStatisticsOf(d, rankRes[p][1].ranking, arg[p].livestream_id))
       /\ seen' = [seen EXCEPT ![p] = @ \cup {d.ver}]
  /\ UNCHANGED <<iconVars, cancelled, db, ret, arg, fnTx, sfVars, myCall, rankRes, started>>

\* another request commits a reaction on a stream
PostReaction(l) ==
  /\ db.ver < MaxWrites
  /\ LET i == Cardinality(db.reactions) + 1 IN
       db' = [db EXCEPT
                !.reactions = @ \cup {[id |-> i, livestream_id |-> l,
                                       emoji_name |-> EmojiOf(i)]},
                !.ver = @ + 1]
  /\ UNCHANGED <<iconVars, cancelled, ret, procVars, sfVars>>

Init ==
  /\ db = InitialStore
  /\ userSeq = MaxUsers
  /\ ret = [op |-> "none"]
  /\ InitRequests

Next ==
  \/ \E p \in Procs :
        \/ \E username \in {NameOf(1)} : StartUserStatistics(p, username)
        \/ UserStatisticsGetUser(p)
        \/ UserStatisticsGetUserFails(p)
        \/ CallGetUserRanking(p)
        \/ SingleflightDo(p)
        \/ RankingFnSelectUsers(p)
        \/ RankingFnFails(p)
        \/ RankingFnScores(p)
        \/ SingleflightDone(p)
        \/ SingleflightWait(p)
        \/ UserStatisticsAggregate(p)
        \/ \E l \in {1} : StartLivestreamStatistics(p, l)
        \/ LivestreamStatisticsGet(p)
        \/ LivestreamStatisticsGetFails(p)
        \/ LivestreamStatisticsRanking(p)
        \/ LivestreamStatisticsAggregate(p)
  \/ \E l \in {1} : PostReaction(l)

Spec == Init /\ [][Next]_vars

\* ------------------ requests for entities the store has not (SpecLookup)
\* both handlers, asked for a user and a stream of the store and for a
\* username and a stream id the store has no row for; the store is left alone
NextLookup ==
  \E p \in Procs :
    \/ \E username \in {NameOf(1), NoSuchUsername} : StartUserStatistics(p, username)
    \/ UserStatisticsGetUser(p)
    \/ UserStatisticsGetUserFails(p)
    \/ CallGetUserRanking(p)
    \/ SingleflightDo(p)
    \/ RankingFnSelectUsers(p)
    \/ RankingFnFails(p)
    \/ RankingFnScores(p)
    \/ SingleflightDone(p)
    \/ SingleflightWait(p)
    \/ UserStatisticsAggregate(p)
    \/ \E l \in {1, NoSuchStream} : StartLivestreamStatistics(p, l)
    \/ LivestreamStatisticsGet(p)
    \/ LivestreamStatisticsGetFails(p)
    \/ LivestreamStatisticsRanking(p)
    \/ LivestreamStatisticsAggregate(p)

SpecLookup == Init /\ [][NextLookup]_vars

\* ------------------------- callers of getUserRanking cancelled (SpecCancel)
\* the context of a request is cancelled while the request is inside
\* getUserRanking, starting, running or waiting on the computation
CancelRequest(p) ==
  /\ pc[p] \in {"sf_do", "sf_wait", "fn_users", "fn_scores", "fn_return"}
  /\ p \notin cancelled
  /\ cancelled' = cancelled \cup {p}
  /\ UNCHANGED <<iconVars, db, ret, pc, arg, tx, resp, fnTx, sfVars, myCall, rankRes,
                 seen, started>>

\* the store is left alone: no reaction is posted
NextCancel ==
  \/ \E p \in Procs :
        \/ \E username \in {NameOf(1)} : StartUserStatistics(p, username)
        \/ UserStatisticsGetUser(p)
        \/ UserStatisticsGetUserFails(p)
        \/ CallGetUserRanking(p)
        \/ SingleflightDo(p)
        \/ RankingFnSelectUsers(p)
        \/ RankingFnFails(p)
        \/ RankingFnScores(p)
        \/ SingleflightDone(p)
        \/ SingleflightWait(p)
        \/ UserStatisticsAggregate(p)
        \/ CancelRequest(p)

SpecCancel == Init /\ [][NextCancel]_vars

\* ------------------------------------ the user caches and the icon write
\* (SpecIcon: postIconHandler, getUserHandler with fillUserResponse and
\* getUserTheme, and getUser, step by step)
IconRowsOf(d, u) == {i \in d.icons : i.user_id = u}
ThemeRowsOf(d, u) == {t \in d.themes : t.user_id = u}
UserByID(d, u) == {r \in d.users : r.id = u}

\* the User fillUserResponse builds
UserOf(um, tm, hash) ==
  [id |-> um.id, name |-> um.name,
   theme |-> [id |-> tm.id, dark_mode |-> tm.dark_mode],
   icon_hash |-> hash]

Note(p, event) == trace' = [trace EXCEPT ![p] = Append(@, event)]

\* the place in hist of the icon row with this id
PlaceOf(id) == MaxOf({v \in DOMAIN hist : hist[v].id = id})

\* the icon hash of user u in the store after the first v commits
IconHashAt(u, v) ==
  LET S == {i \in 1..v : hist[i].user_id = u}
  IN IF S = {} THEN fallbackHash ELSE hist[MaxOf(S)].icon_hash

\* where the caller of fillUserResponse goes on: to its Commit
AfterFill(p) == IF arg[p].op = "register" THEN "rg_commit" ELSE "gu_commit"

\* a handler returns and its goroutine serves the next request
NextRequest(p) ==
  /\ pc[p] = "done"
  /\ pc' = [pc EXCEPT ![p] = "idle"]
  /\ arg' = [arg EXCEPT ![p] = [op |-> "none"]]
  /\ resp' = [resp EXCEPT ![p] = [status |-> 0]]
  /\ userModel' = [userModel EXCEPT ![p] = <<>>]
  /\ themeModel' = [themeModel EXCEPT ![p] = <<>>]
  /\ iconHash' = [iconHash EXCEPT ![p] = <<>>]
  /\ filled' = [filled EXCEPT ![p] = <<>>]
  /\ hashString' = [hashString EXCEPT ![p] = <<>>]
  /\ iconID' = [iconID EXCEPT ![p] = 0]
  /\ trace' = [trace EXCEPT ![p] = <<>>]
  /\ after' = [after EXCEPT ![p] = 0]
  /\ UNCHANGED <<db, tx, rankVars, userSeq, themeMutex, cacheVars, iconSeq, hist, returned, invalidatedAt>>

\* ---- postIconHandler
\* session verified, the body decoded, BeginTxx
StartPostIcon(p, userID, image) ==
  /\ MayStart(p)
  /\ iconSeq + Cardinality({q \in Procs : pc[q] = "pi_exec"}) < MaxIconWrites
  /\ pc' = [pc EXCEPT ![p] = "pi_exec"]
  /\ arg' = [arg EXCEPT ![p] = [op |-> "postIcon", userID |-> userID, image |-> image]]
  /\ UNCHANGED <<db, tx, resp, rankVars, userSeq, iconVars>>

\* DELETE FROM icons WHERE user_id = ?; INSERT INTO icons ...; os.WriteFile;
\* LastInsertId.  The rows the DELETE and the INSERT touch stay locked until
\* the transaction ends, so a second writer of the same user waits here.
PostIconExec(p) ==
  /\ pc[p] = "pi_exec"
  /\ \A q \in Procs : pc[q] = "pi_commit" => arg[q].userID # arg[p].userID
  /\ hashString' = [hashString EXCEPT ![p] = <<Sha256Hex(arg[p].image)>>]
  /\ iconSeq' = iconSeq + 1
  /\ iconID' = [iconID EXCEPT ![p] = iconSeq + 1]
  /\ pc' = [pc EXCEPT ![p] = "pi_commit"]
  /\ UNCHANGED <<db, arg, tx, resp, rankVars, userSeq, themeMutex, cacheVars, userModel, themeModel,
                 iconHash, filled, hist, returned, invalidatedAt, trace, after>>

\* one of the statements, or writing the icon file, fails: 500, Rollback
PostIconExecFails(p) ==
  /\ pc[p] = "pi_exec"
  /\ \E cause \in {"store_fail", "file_fail"} : Note(p, cause)
  /\ Finish(p, HTTPError(500))
  /\ UNCHANGED <<db, arg, rankVars, userSeq, themeMutex, cacheVars, iconLocals, iconSeq, hist, returned,
                 invalidatedAt, after>>

\* tx.Commit()
PostIconCommit(p) ==
  /\ pc[p] = "pi_commit"
  /\ LET row == [id |-> iconID[p], user_id |-> arg[p].userID,
                 icon_hash |-> hashString[p][1]]
     IN /\ db' = [db EXCEPT !.icons = (@ \ IconRowsOf(db, arg[p].userID)) \cup {row},
                            !.ver = @ + 1]
        /\ hist' = Append(hist, row)
  /\ Note(p, "commit")
  /\ pc' = [pc EXCEPT ![p] = "pi_redis"]
  /\ UNCHANGED <<arg, tx, resp, rankVars, userSeq, themeMutex, cacheVars, iconLocals, iconSeq, returned,
                 invalidatedAt, after>>

\* tx.Commit() fails: 500, Rollback
PostIconCommitFails(p) ==
  /\ pc[p] = "pi_commit"
  /\ Note(p, "store_fail")
  /\ Finish(p, HTTPError(500))
  /\ UNCHANGED <<db, arg, rankVars, userSeq, themeMutex, cacheVars, iconLocals, iconSeq, hist, returned,
                 invalidatedAt, after>>

\* redisConn.Set(ctx, getIconHashKey(userID), hashString, 0)
PostIconRedisSet(p) ==
  /\ pc[p] = "pi_redis"
  /\ redis' = [redis EXCEPT ![arg[p].userID] = hashString[p]]
  /\ Note(p, "redis_set")
  /\ pc' = [pc EXCEPT ![p] = "pi_user_cache"]
  /\ UNCHANGED <<db, arg, tx, resp, rankVars, userSeq, themeMutex, userCache, userFillCache, themeCache,
                 iconLocals, iconSeq, hist, returned, invalidatedAt, after>>

\* redisConn.Set fails: the handler returns 500 at once
PostIconRedisSetFails(p) ==
  /\ pc[p] = "pi_redis"
  /\ Note(p, "redis_fail")
  /\ Finish(p, HTTPError(500))
  /\ returned' = [returned EXCEPT ![arg[p].userID] = MaxOf({@, PlaceOf(iconID[p])})]
  /\ UNCHANGED <<db, arg, rankVars, userSeq, themeMutex, cacheVars, iconLocals, iconSeq, hist,
                 invalidatedAt, after>>

\* userCache.Delete(userID)
PostIconUserCacheDelete(p) ==
  /\ pc[p] = "pi_user_cache"
  /\ userCache' = [userCache EXCEPT ![arg[p].userID] = <<>>]
  /\ Note(p, "userCache.Delete")
  /\ pc' = [pc EXCEPT ![p] = "pi_fill_cache"]
  /\ UNCHANGED <<db, arg, tx, resp, rankVars, userSeq, themeMutex, redis, userFillCache, themeCache,
                 iconLocals, iconSeq, hist, returned, invalidatedAt, after>>

\* userFillCache.Delete(userID); return 201 with the id of the icon row
PostIconUserFillCacheDelete(p) ==
  /\ pc[p] = "pi_fill_cache"
  /\ userFillCache' = [userFillCache EXCEPT ![arg[p].userID] = <<>>]
  /\ Note(p, "userFillCache.Delete")
  /\ Finish(p, [status |-> 201, id |-> iconID[p]])
  /\ returned' = [returned EXCEPT ![arg[p].userID] = MaxOf({@, PlaceOf(iconID[p])})]
  /\ invalidatedAt' = [invalidatedAt EXCEPT ![arg[p].userID] = Len(hist)]
  /\ UNCHANGED <<db, arg, rankVars, userSeq, themeMutex, redis, userCache, themeCache, iconLocals,
                 iconSeq, hist, after>>

\* ---- registerHandler
\* the user registerHandler is to create: the next id of the users table
NewUserID == MaxUsers

\* the body decoded, the name not "pipe", the password hashed, BeginTxx
StartRegister(p, name, dark_mode) ==
  /\ MayStart(p)
  /\ userSeq < MaxUsers
  /\ \A q \in Procs : arg[q].op # "register"
  /\ pc' = [pc EXCEPT ![p] = "rg_insert"]
  /\ arg' = [arg EXCEPT ![p] = [op |-> "register", name |-> name,
                                dark_mode |-> dark_mode]]
  /\ UNCHANGED <<db, tx, resp, rankVars, iconVars>>

\* INSERT INTO users ...; LastInsertId; INSERT INTO themes ...: the rows are
\* in the view of this transaction only
RegisterInsert(p) ==
  /\ pc[p] = "rg_insert"
  /\ LET id == userSeq + 1
         row == [id |-> id, name |-> arg[p].name]
         theme == [id |-> id, user_id |-> id, dark_mode |-> arg[p].dark_mode]
     IN /\ userSeq' = id
        /\ userModel' = [userModel EXCEPT ![p] = <<row>>]
        /\ tx' = [tx EXCEPT ![p] = <<[TxView(tx[p]) EXCEPT !.users = @ \cup {row},
                                                            !.themes = @ \cup {theme}]>>]
  /\ pc' = [pc EXCEPT ![p] = "rg_user_cache"]
  /\ UNCHANGED <<db, arg, resp, rankVars, themeMutex, cacheVars, themeModel, iconHash,
                 filled, hashString, iconID, iconHistory>>

\* one of the INSERTs fails, or the zone file cannot be opened, or
\* pdns_control fails: 500, Rollback
RegisterFails(p) ==
  /\ \/ pc[p] = "rg_insert" /\ Note(p, "store_fail")
     \/ pc[p] = "rg_zone" /\ Note(p, "file_fail")
  /\ Finish(p, HTTPError(500))
  /\ UNCHANGED <<db, arg, rankVars, userSeq, themeMutex, cacheVars, iconLocals, iconSeq, hist,
                 returned, invalidatedAt, after>>

\* (the write path puts its UserModel in userCache instead of deleting the entry)
RegisterUserCacheStore(p) ==
  /\ pc[p] = "rg_user_cache"
  /\ userCache' = [userCache EXCEPT ![userModel[p][1].id] = userModel[p]]
  /\ Note(p, "userCache.Delete")
  /\ pc' = [pc EXCEPT ![p] = "rg_fill_cache"]
  /\ UNCHANGED <<db, arg, tx, resp, rankVars, userSeq, themeMutex, redis, userFillCache,
                 themeCache, iconLocals, iconSeq, hist, returned, invalidatedAt, after>>

\* userCache.Delete(userID)
RegisterUserCacheDelete(p) ==
  /\ pc[p] = "rg_user_cache"
  /\ userCache' = [userCache EXCEPT ![userModel[p][1].id] = <<>>]
  /\ Note(p, "userCache.Delete")
  /\ pc' = [pc EXCEPT ![p] = "rg_fill_cache"]
  /\ UNCHANGED <<db, arg, tx, resp, rankVars, userSeq, themeMutex, redis, userFillCache,
                 themeCache, iconLocals, iconSeq, hist, returned, invalidatedAt, after>>

\* userFillCache.Delete(userID)
RegisterUserFillCacheDelete(p) ==
  /\ pc[p] = "rg_fill_cache"
  /\ userFillCache' = [userFillCache EXCEPT ![userModel[p][1].id] = <<>>]
  /\ Note(p, "userFillCache.Delete")
  /\ invalidatedAt' = [invalidatedAt EXCEPT ![userModel[p][1].id] = Len(hist)]
  /\ pc' = [pc EXCEPT ![p] = "rg_zone"]
  /\ UNCHANGED <<db, arg, tx, resp, rankVars, userSeq, themeMutex, redis, userCache, themeCache,
                 iconLocals, iconSeq, hist, returned, after>>

\* the record is added to the zone file and pdns_control reloads it; the
\* handler goes on to fillUserResponse(ctx, tx, userModel)
RegisterZone(p) ==
  /\ pc[p] = "rg_zone"
  /\ pc' = [pc EXCEPT ![p] = "fill_load"]
  /\ UNCHANGED <<db, arg, tx, resp, rankVars, iconVars>>

\* tx.Commit(); return 201 with the User
RegisterCommit(p) ==
  /\ pc[p] = "rg_commit"
  /\ db' = [db EXCEPT !.users = @ \cup UserByID(tx[p][1], userModel[p][1].id),
                      !.themes = @ \cup ThemeRowsOf(tx[p][1], userModel[p][1].id),
                      !.ver = @ + 1]
  /\ Note(p, "commit")
  /\ Finish(p, [status |-> 201, user |-> filled[p][1]])
  /\ UNCHANGED <<arg, rankVars, userSeq, themeMutex, cacheVars, iconLocals, iconSeq, hist,
                 returned, invalidatedAt, after>>

\* tx.Commit() fails: 500, Rollback
RegisterCommitFails(p) ==
  /\ pc[p] = "rg_commit"
  /\ Note(p, "store_fail")
  /\ Finish(p, HTTPError(500))
  /\ UNCHANGED <<db, arg, rankVars, userSeq, themeMutex, cacheVars, iconLocals, iconSeq, hist,
                 returned, invalidatedAt, after>>

\* ---- getUserHandler
\* session verified, BeginTxx
StartGetUser(p, username) ==
  /\ MayStart(p)
  /\ pc' = [pc EXCEPT ![p] = "gu_select"]
  /\ arg' = [arg EXCEPT ![p] = [op |-> "getUser", username |-> username]]
  /\ UNCHANGED <<db, tx, resp, rankVars, userSeq, iconVars>>

\* SELECT * FROM users WHERE name = ?
GetUserSelect(p) ==
  /\ pc[p] = "gu_select"
  /\ LET d == TxView(tx[p]) IN
       IF UserByName(d, arg[p].username) = {}
       THEN /\ Finish(p, HTTPError(404))
            /\ UNCHANGED userModel
       ELSE /\ userModel' = [userModel EXCEPT ![p] =
                               <<CHOOSE u \in UserByName(d, arg[p].username) : TRUE>>]
            /\ tx' = [tx EXCEPT ![p] = <<d>>]
            /\ pc' = [pc EXCEPT ![p] = "fill_load"]
            /\ UNCHANGED resp
  /\ UNCHANGED <<db, arg, rankVars, userSeq, themeMutex, cacheVars, themeModel, iconHash, filled,
                 hashString, iconID, iconHistory>>

\* a query of the read path fails with an error that is not sql.ErrNoRows,
\* or the handler's Commit fails: 500
ReadStoreFails(p) ==
  /\ pc[p] \in {"gu_select", "theme_query", "fill_icon", "gu_commit", "u_query"}
  /\ Note(p, "store_fail")
  /\ Finish(p, HTTPError(500))
  /\ UNCHANGED <<db, arg, rankVars, userSeq, themeMutex, cacheVars, iconLocals, iconSeq, hist, returned,
                 invalidatedAt, after>>

\* fillUserResponse: userFillCache.Load(userModel.ID)
FillLoad(p) ==
  /\ pc[p] = "fill_load"
  /\ after' = [after EXCEPT ![p] = returned[userModel[p][1].id]]
  /\ IF userFillCache[userModel[p][1].id] # <<>>
     THEN /\ filled' = [filled EXCEPT ![p] = userFillCache[userModel[p][1].id]]
          /\ pc' = [pc EXCEPT ![p] = AfterFill(p)]
     ELSE /\ pc' = [pc EXCEPT ![p] = "theme_check"]
          /\ UNCHANGED filled
  /\ UNCHANGED <<db, arg, tx, resp, rankVars, userSeq, themeMutex, cacheVars, userModel, themeModel,
                 iconHash, hashString, iconID, iconSeq, hist, returned,
                 invalidatedAt, trace>>

\* getUserTheme: themeCache.RLock(), which waits while a writer holds the lock
ThemeRLock(p) ==
  /\ pc[p] = "theme_check"
  /\ themeMutex.writer = {}
  /\ themeMutex' = [themeMutex EXCEPT !.readers = @ \cup {p}]
  /\ pc' = [pc EXCEPT ![p] = "theme_rlocked"]
  /\ UNCHANGED <<db, arg, tx, resp, rankVars, userSeq, cacheVars, iconLocals, iconHistory>>

\* (a miss goes on to the query with the read lock still held)
ThemeCheckKeepsRLock(p) ==
  /\ pc[p] = "theme_rlocked"
  /\ IF themeCache[userModel[p][1].id] # <<>>
     THEN /\ themeModel' = [themeModel EXCEPT ![p] = themeCache[userModel[p][1].id]]
          /\ themeMutex' = [themeMutex EXCEPT !.readers = @ \ {p}]
          /\ pc' = [pc EXCEPT ![p] = "fill_redis"]
     ELSE /\ pc' = [pc EXCEPT ![p] = "theme_query"]
          /\ UNCHANGED <<themeModel, themeMutex>>
  /\ UNCHANGED <<db, arg, tx, resp, rankVars, userSeq, cacheVars, userModel, iconHash, filled,
                 hashString, iconID, iconHistory>>

\* getUserTheme: the map is read under the read lock and RUnlock is called,
\* on a hit and on a miss
ThemeCheck(p) ==
  /\ pc[p] = "theme_rlocked"
  /\ themeMutex' = [themeMutex EXCEPT !.readers = @ \ {p}]
  /\ IF themeCache[userModel[p][1].id] # <<>>
     THEN /\ themeModel' = [themeModel EXCEPT ![p] = themeCache[userModel[p][1].id]]
          /\ pc' = [pc EXCEPT ![p] = "fill_redis"]
     ELSE /\ pc' = [pc EXCEPT ![p] = "theme_query"]
          /\ UNCHANGED themeModel
  /\ UNCHANGED <<db, arg, tx, resp, rankVars, userSeq, cacheVars, userModel, iconHash, filled,
                 hashString, iconID, iconHistory>>

\* getUserTheme: SELECT * FROM themes WHERE user_id = ?, with no lock held;
\* any error, sql.ErrNoRows too, is a 500
ThemeQuery(p) ==
  /\ pc[p] = "theme_query"
  /\ LET rows == ThemeRowsOf(TxView(tx[p]), userModel[p][1].id) IN
       IF rows = {}
       THEN /\ Note(p, "store_fail")
            /\ Finish(p, HTTPError(500))
            /\ UNCHANGED themeModel
       ELSE /\ themeModel' = [themeModel EXCEPT ![p] = <<CHOOSE t \in rows : TRUE>>]
            /\ pc' = [pc EXCEPT ![p] = "theme_store"]
            /\ UNCHANGED <<tx, resp, trace>>
  /\ UNCHANGED <<db, arg, rankVars, userSeq, themeMutex, cacheVars, userModel, iconHash, filled,
                 hashString, iconID, iconSeq, hist, returned, invalidatedAt, after>>

\* getUserTheme: themeCache.Lock(), which waits while anyone holds the lock
ThemeLock(p) ==
  /\ pc[p] = "theme_store"
  /\ themeMutex.writer = {} /\ themeMutex.readers = {}
  /\ themeMutex' = [themeMutex EXCEPT !.writer = {p}]
  /\ pc' = [pc EXCEPT ![p] = "theme_wlocked"]
  /\ UNCHANGED <<db, arg, tx, resp, rankVars, userSeq, cacheVars, iconLocals, iconHistory>>

\* getUserTheme: the theme is put in the map under the write lock, Unlock
ThemeStore(p) ==
  /\ pc[p] = "theme_wlocked"
  /\ themeCache' = [themeCache EXCEPT ![userModel[p][1].id] = themeModel[p]]
  /\ themeMutex' = [themeMutex EXCEPT !.writer = {}]
  /\ pc' = [pc EXCEPT ![p] = "fill_redis"]
  /\ UNCHANGED <<db, arg, tx, resp, rankVars, userSeq, redis, userCache, userFillCache,
                 iconLocals, iconHistory>>

\* fillUserResponse: redisConn.Get(ctx, getIconHashKey(userModel.ID)); a
\* missing key is the error redis.Nil
FillRedisGet(p) ==
  /\ pc[p] = "fill_redis"
  /\ IF redis[userModel[p][1].id] # <<>>
     THEN /\ iconHash' = [iconHash EXCEPT ![p] = redis[userModel[p][1].id]]
          /\ pc' = [pc EXCEPT ![p] = "fill_store"]
     ELSE /\ pc' = [pc EXCEPT ![p] = "fill_icon"]
          /\ UNCHANGED iconHash
  /\ UNCHANGED <<db, arg, tx, resp, rankVars, userSeq, themeMutex, cacheVars, userModel, themeModel,
                 filled, hashString, iconID, iconHistory>>

\* redisConn.Get fails because redis cannot be reached
FillRedisGetFails(p) ==
  /\ pc[p] = "fill_redis"
  /\ Note(p, "redis_fail")
  /\ pc' = [pc EXCEPT ![p] = "fill_icon"]
  /\ UNCHANGED <<db, arg, tx, resp, rankVars, userSeq, themeMutex, cacheVars, iconLocals, iconSeq, hist,
                 returned, invalidatedAt, after>>

\* (the icons table is never asked: fallbackHash whenever redis gave no value)
FillIconQueryFallbackOnly(p) ==
  /\ pc[p] = "fill_icon"
  /\ iconHash' = [iconHash EXCEPT ![p] = <<fallbackHash>>]
  /\ pc' = [pc EXCEPT ![p] = "fill_store"]
  /\ UNCHANGED <<db, arg, tx, resp, rankVars, userSeq, themeMutex, cacheVars, userModel, themeModel,
                 filled, hashString, iconID, iconHistory>>

\* fillUserResponse: SELECT icon_hash FROM icons WHERE user_id = ?, and
\* fallbackHash on sql.ErrNoRows
FillIconQuery(p) ==
  /\ pc[p] = "fill_icon"
  /\ LET rows == IconRowsOf(TxView(tx[p]), userModel[p][1].id) IN
       iconHash' = [iconHash EXCEPT ![p] =
                      IF rows = {} THEN <<fallbackHash>>
                      ELSE <<(CHOOSE i \in rows : TRUE).icon_hash>>]
  /\ pc' = [pc EXCEPT ![p] = "fill_store"]
  /\ UNCHANGED <<db, arg, tx, resp, rankVars, userSeq, themeMutex, cacheVars, userModel, themeModel,
                 filled, hashString, iconID, iconHistory>>

\* fillUserResponse: the User is built and userFillCache.Store'd
FillStore(p) ==
  /\ pc[p] = "fill_store"
  /\ LET u == UserOf(userModel[p][1], themeModel[p][1], iconHash[p][1]) IN
       /\ userFillCache' = [userFillCache EXCEPT ![userModel[p][1].id] = <<u>>]
       /\ filled' = [filled EXCEPT ![p] = <<u>>]
  /\ pc' = [pc EXCEPT ![p] = AfterFill(p)]
  /\ UNCHANGED <<db, arg, tx, resp, rankVars, userSeq, themeMutex, redis, userCache, themeCache,
                 userModel, themeModel, iconHash, hashString, iconID, iconHistory>>

\* tx.Commit(); return 200 with the User
GetUserCommit(p) ==
  /\ pc[p] = "gu_commit"
  /\ Finish(p, [status |-> 200, user |-> filled[p][1]])
  /\ UNCHANGED <<db, arg, rankVars, userSeq, iconVars>>

\* ---- getUser, called with the caller's transaction
StartGetUserByID(p, userID) ==
  /\ MayStart(p)
  /\ pc' = [pc EXCEPT ![p] = "u_load"]
  /\ arg' = [arg EXCEPT ![p] = [op |-> "getUserByID", userID |-> userID]]
  /\ UNCHANGED <<db, tx, resp, rankVars, userSeq, iconVars>>

\* userCache.Load(userID): a hit is returned
GetUserLoad(p) ==
  /\ pc[p] = "u_load"
  /\ IF userCache[arg[p].userID] # <<>>
     THEN /\ userModel' = [userModel EXCEPT ![p] = userCache[arg[p].userID]]
          /\ Finish(p, [status |-> 200, userModel |-> userCache[arg[p].userID][1]])
     ELSE /\ pc' = [pc EXCEPT ![p] = "u_query"]
          /\ UNCHANGED <<tx, resp, userModel>>
  /\ UNCHANGED <<db, arg, rankVars, userSeq, themeMutex, cacheVars, themeModel, iconHash, filled,
                 hashString, iconID, iconHistory>>

\* (no row is taken for a user with no fields, cached and returned)
GetUserQuerySwallows(p) ==
  /\ pc[p] = "u_query"
  /\ LET d == TxView(tx[p])
         found == IF UserByID(d, arg[p].userID) = {}
                  THEN [id |-> 0, name |-> EmptyString]
                  ELSE CHOOSE u \in UserByID(d, arg[p].userID) : TRUE
     IN /\ userModel' = [userModel EXCEPT ![p] = <<found>>]
        /\ tx' = [tx EXCEPT ![p] = <<d>>]
  /\ pc' = [pc EXCEPT ![p] = "u_store"]
  /\ UNCHANGED <<db, arg, resp, rankVars, userSeq, themeMutex, cacheVars, themeModel, iconHash,
                 filled, hashString, iconID, iconHistory>>

\* SELECT * FROM users WHERE id = ?; any error is returned
GetUserQuery(p) ==
  /\ pc[p] = "u_query"
  /\ LET d == TxView(tx[p]) IN
       IF UserByID(d, arg[p].userID) = {}
       THEN /\ Note(p, "store_fail")
            /\ Finish(p, HTTPError(500))
            /\ UNCHANGED userModel
       ELSE /\ userModel' = [userModel EXCEPT ![p] =
                               <<CHOOSE u \in UserByID(d, arg[p].userID) : TRUE>>]
            /\ tx' = [tx EXCEPT ![p] = <<d>>]
            /\ pc' = [pc EXCEPT ![p] = "u_store"]
            /\ UNCHANGED <<resp, trace>>
  /\ UNCHANGED <<db, arg, rankVars, userSeq, themeMutex, cacheVars, themeModel, iconHash, filled,
                 hashString, iconID, iconSeq, hist, returned, invalidatedAt, after>>

\* userCache.Store(userID, user); the UserModel is returned
GetUserStore(p) ==
  /\ pc[p] = "u_store"
  /\ userCache' = [userCache EXCEPT ![arg[p].userID] = userModel[p]]
  /\ Finish(p, [status |-> 200, userModel |-> userModel[p][1]])
  /\ UNCHANGED <<db, arg, rankVars, userSeq, themeMutex, redis, userFillCache, themeCache, iconLocals,
                 iconHistory>>

NextIcon ==
  \E p \in Procs :
    \/ \E userID \in {1} : \E image \in Images : StartPostIcon(p, userID, image)
    \/ PostIconExec(p)
    \/ PostIconExecFails(p)
    \/ PostIconCommit(p)
    \/ PostIconCommitFails(p)
    \/ PostIconRedisSet(p)
    \/ PostIconRedisSetFails(p)
    \/ PostIconUserCacheDelete(p)
    \/ PostIconUserFillCacheDelete(p)
    \/ \E username \in {NameOf(1)} : StartGetUser(p, username)
    \/ GetUserSelect(p)
    \/ ReadStoreFails(p)
    \/ FillLoad(p)
    \/ ThemeRLock(p)
    \/ ThemeCheck(p)
    \/ ThemeQuery(p)
    \/ ThemeLock(p)
    \/ ThemeStore(p)
    \/ FillRedisGet(p)
    \/ FillRedisGetFails(p)
    \/ FillIconQuery(p)
    \/ FillStore(p)
    \/ GetUserCommit(p)
    \/ \E userID \in {1} : StartGetUserByID(p, userID)
    \/ GetUserLoad(p)
    \/ GetUserQuery(p)
    \/ GetUserStore(p)
    \/ NextRequest(p)

SpecIcon == Init /\ [][NextIcon]_vars

\* postIconHandler and getUserHandler alone, one request per slot
NextFill ==
  \E p \in Procs :
    \/ \E userID \in {1} : \E image \in Images : StartPostIcon(p, userID, image)
    \/ PostIconExec(p)
    \/ PostIconExecFails(p)
    \/ PostIconCommit(p)
    \/ PostIconCommitFails(p)
    \/ PostIconRedisSet(p)
    \/ PostIconRedisSetFails(p)
    \/ PostIconUserCacheDelete(p)
    \/ PostIconUserFillCacheDelete(p)
    \/ \E username \in {NameOf(1)} : StartGetUser(p, username)
    \/ GetUserSelect(p)
    \/ ReadStoreFails(p)
    \/ FillLoad(p)
    \/ ThemeRLock(p)
    \/ ThemeCheck(p)
    \/ ThemeQuery(p)
    \/ ThemeLock(p)
    \/ ThemeStore(p)
    \/ FillRedisGet(p)
    \/ FillRedisGetFails(p)
    \/ FillIconQuery(p)
    \/ FillStore(p)
    \/ GetUserCommit(p)

SpecFill == Init /\ [][NextFill]_vars

\* ---- getUserHandler calls alone, for every user of the store, one request
\* per slot (SpecTheme)
NextTheme ==
  \E p \in Procs :
    \/ \E username \in Usernames : StartGetUser(p, username)
    \/ GetUserSelect(p)
    \/ ReadStoreFails(p)
    \/ FillLoad(p)
    \/ ThemeRLock(p)
    \/ ThemeCheck(p)
    \/ ThemeQuery(p)
    \/ ThemeLock(p)
    \/ ThemeStore(p)
    \/ FillRedisGet(p)
    \/ FillRedisGetFails(p)
    \/ FillIconQuery(p)
    \/ FillStore(p)
    \/ GetUserCommit(p)

SpecTheme == Init /\ [][NextTheme]_vars

\* ---- a user registers while getUser is called for the new id (SpecRegister)
\* the store before user NewUserID registers
StoreBeforeRegister ==
  [InitialStore EXCEPT !.users = {u \in @ : u.id # NewUserID},
                       !.themes = {t \in @ : t.user_id # NewUserID},
                       !.livestreams = {l \in @ : l.user_id # NewUserID}]

InitRegister ==
  /\ db = StoreBeforeRegister
  /\ userSeq = MaxUsers - 1
  /\ ret = [op |-> "none"]
  /\ InitRequests

NextRegister ==
  \E p \in Procs :
    \/ \E dark_mode \in BOOLEAN : StartRegister(p, NameOf(NewUserID), dark_mode)
    \/ RegisterInsert(p)
    \/ RegisterFails(p)
    \/ RegisterUserCacheDelete(p)
    \/ RegisterUserFillCacheDelete(p)
    \/ RegisterZone(p)
    \/ FillLoad(p)
    \/ ThemeRLock(p)
    \/ ThemeCheck(p)
    \/ ThemeQuery(p)
    \/ ThemeLock(p)
    \/ ThemeStore(p)
    \/ FillRedisGet(p)
    \/ FillRedisGetFails(p)
    \/ FillIconQuery(p)
    \/ FillStore(p)
    \/ ReadStoreFails(p)
    \/ RegisterCommit(p)
    \/ RegisterCommitFails(p)
    \/ \E userID \in {NewUserID} : StartGetUserByID(p, userID)
    \/ GetUserLoad(p)
    \/ GetUserQuery(p)
    \/ GetUserStore(p)
    \/ NextRequest(p)

SpecRegister == InitRegister /\ [][NextRegister]_vars

\* ======================================================================
\* Properties
\* ======================================================================
IsUserRequest(p) == arg[p].op = "getUserStatistics"
IsLivestreamRequest(p) == arg[p].op = "getLivestreamStatistics"
HasRanking(p) == rankRes[p] # <<>>
RankingOk(p) == HasRanking(p) /\ ~rankRes[p][1].err

\* C1: user-ranking calls coalesce.  At no time are two user-ranking
\* computations in flight, the request computing is the one whose call is in
\* the group's map, and every caller that has an outcome has the outcome of
\* the call it created or joined, and has it only once that call is done.
C1_UserRankingCoalesced ==
  /\ Cardinality(CallsInFlight) <= 1
  /\ \A p \in Procs : pc[p] \in {"fn_users", "fn_scores", "fn_return"} => sfm = <<p>>
  /\ \A p \in Procs : pc[p] = "sf_wait" => ~HasRanking(p)
  /\ \A p \in Procs : IsUserRequest(p) /\ HasRanking(p) =>
        /\ calls[myCall[p]].done
        /\ rankRes[p] = calls[myCall[p]].val

\* C1 witness: every caller holds the ranking of one and the same call
C1_Witness ==
  \E c \in Procs :
    /\ calls[c].done
    /\ ~calls[c].val[1].err
    /\ \A p \in Procs : HasRanking(p) /\ myCall[p] = c

\* C3: every ranking produced is strictly ordered: of two distinct entries
\* exactly one is Less than the other.
C3_StrictTotalOrder ==
  /\ ret.op = "getUserRanking" =>
        \A i, j \in DOMAIN ret.ranking : i # j =>
          UserRankingLess(ret.ranking, i, j) # UserRankingLess(ret.ranking, j, i)
  /\ ret.op = "getLivestreamStatistics" /\ ret.resp.status = 200 =>
        \A i, j \in DOMAIN ret.ranking : i # j =>
          LivestreamRankingLess(ret.ranking, i, j) # LivestreamRankingLess(ret.ranking, j, i)

\* C4: the rank returned for an existing entity lies in 1..N, N the size of
\* the ranking used, and the ranks of all the entities are exactly 1..N.
C4_RankWithinRanking ==
  /\ ret.op = "getUserStatistics" /\ ret.resp.status = 200 =>
        /\ ret.resp.rank \in 1..Len(ret.ranking)
        /\ {UserRank(ret.ranking, u.name) : u \in db.users} = 1..Len(ret.ranking)
  /\ ret.op = "getLivestreamStatistics" /\ ret.resp.status = 200 =>
        /\ ret.resp.rank \in 1..Len(ret.ranking)
        /\ {LivestreamRank(ret.ranking, l.id) : l \in db.livestreams} = 1..Len(ret.ranking)

\* the score the user domain is to have: the reactions on the streams the
\* user owns, counted, plus the tips of the livecomments on those streams
ReactionsOnStreamsOf(d, u) ==
  {r \in d.reactions : \E l \in StreamsOfUser(d, u) : r.livestream_id = l.id}
LivecommentsOnStreamsOf(d, u) ==
  {c \in d.livecomments : \E l \in StreamsOfUser(d, u) : c.livestream_id = l.id}
ReactionsPlusTips(d, u) ==
  Cardinality(ReactionsOnStreamsOf(d, u))
    + SumOf([c \in LivecommentsOnStreamsOf(d, u) |-> c.tip], LivecommentsOnStreamsOf(d, u))

\* C5: the score getUserRanking gives each user is the number of reactions
\* plus the sum of the tips on the streams the user owns.
C5_UserScore ==
  ret.op = "getUserRanking" =>
    \A i \in DOMAIN ret.userScores :
      ret.userScores[i].ReactionCount + ret.userScores[i].TotalTips
        = ReactionsPlusTips(db, ret.userScores[i].ID)

\* C7: nothing is cached beyond the call in flight.  The group's map never
\* holds a call that is done, so no caller is handed a completed call; and a
\* getUserRanking call made when no computation was in flight gets a ranking
\* read from the store no earlier than the call was made.
C7_NoCachingBeyondInFlight ==
  /\ sfm # <<>> => ~calls[sfm[1]].done
  /\ \A p \in Procs : IsUserRequest(p) /\ RankingOk(p) /\ started[p][1].alone =>
        \A v \in rankRes[p][1].vers : v >= started[p][1].ver

\* C7 witness: a call made with nothing in flight, after an earlier
\* computation had read the store and a later write had committed, holds a
\* ranking of its own call, read after that write
C7_Witness ==
  \E p \in Procs : \E c \in Procs :
    /\ IsUserRequest(p) /\ RankingOk(p) /\ started[p][1].alone
    /\ c # myCall[p] /\ calls[c].done /\ ~calls[c].val[1].err
    /\ \A v \in calls[c].val[1].vers : v < started[p][1].ver
    /\ rankRes[p][1].vers = {started[p][1].ver}

\* C8 as stated: in each of the two domains at most one ranking is being
\* computed at any time.
C8_EachDomainCoalesced ==
  /\ Cardinality(CallsInFlight) <= 1
  /\ Cardinality({p \in Procs : pc[p] = "ls_ranking"}) <= 1

\* C8 amended: only the user domain coalesces.  User-ranking computations
\* never overlap and their callers share the outcome of a call that a user
\* request created; a stream request never enters the singleflight group
\* (it neither creates nor joins nor waits for a call) and holds only a
\* ranking it read itself on its own transaction.
C8_OnlyUserDomainCoalesced ==
  /\ Cardinality(CallsInFlight) <= 1
  /\ \A p \in Procs : IsUserRequest(p) /\ HasRanking(p) =>
        /\ IsUserRequest(myCall[p])
        /\ rankRes[p] = calls[myCall[p]].val
  /\ \A p \in Procs : IsLivestreamRequest(p) =>
        /\ myCall[p] = 0 /\ ~calls[p].created
        /\ pc[p] \in {"ls_get", "ls_ranking", "ls_rank", "done"}
        /\ HasRanking(p) => rankRes[p][1].vers = seen[p]

\* C8 witness: a stream request has computed its ranking while a
\* user-ranking call, created before the stream request read anything, is
\* still in flight
C8_Witness ==
  \E p \in Procs : \E c \in CallsInFlight :
    /\ pc[p] = "ls_rank"
    /\ calls[c].val # <<>> /\ ~calls[c].val[1].err
    /\ \A v \in calls[c].val[1].vers : \A w \in seen[p] : v < w

\* C9 as stated: every value of a 200 response, the ranking included, was
\* read from one version of the store.
C9_OneSnapshotPerRequest ==
  \A p \in Procs : pc[p] = "done" /\ resp[p].status = 200 =>
    Cardinality(seen[p] \cup rankRes[p][1].vers) <= 1

\* C9 amended: every query a request runs on its own transaction reads one
\* version of the store, which for a stream request includes the ranking;
\* the user ranking is read in the coalesced computation's own transaction,
\* all of it from one version, which need not be the request's.
C9_OneSnapshotPerTransaction ==
  \A p \in Procs :
    /\ Cardinality(seen[p]) <= 1
    /\ RankingOk(p) => Cardinality(rankRes[p][1].vers) = 1
    /\ IsLivestreamRequest(p) /\ HasRanking(p) => rankRes[p][1].vers = seen[p]

\* C9 witness: a write committed while a stream request was between its
\* queries, and a user request answered with a ranking of another version
\* than its own reads
C9_Witness ==
  /\ \E p \in Procs : pc[p] = "ls_rank" /\ db.ver \notin seen[p]
  /\ \E q \in Procs : /\ IsUserRequest(q) /\ pc[q] = "done" /\ resp[q].status = 200
                       /\ rankRes[q][1].vers # seen[q]

\* ---- properties of the caches and the icon write
IsPostIcon(p) == arg[p].op = "postIcon"
IsGetUser(p) == arg[p].op = "getUser"
Did(p, event) == \E i \in DOMAIN trace[p] : trace[p][i] = event

\* C2: every postIconHandler that has committed its icon row has deleted the
\* user's entry from userCache and from userFillCache by the time it returns,
\* whatever it returns.
C2_IconWriteInvalidates ==
  \A p \in Procs : IsPostIcon(p) /\ pc[p] = "done" /\ Did(p, "commit") =>
    Did(p, "userCache.Delete") /\ Did(p, "userFillCache.Delete")

\* C6: the User cached in userFillCache carries an icon hash the store has
\* held since the last invalidation of that user, and a fillUserResponse
\* called after an icon write of the user has returned gives an icon hash no
\* older than that write's.
C6_ViewFreshAcrossIconWrite ==
  /\ \A u \in UserIDs : userFillCache[u] # <<>> =>
        \E v \in invalidatedAt[u]..Len(hist) :
          userFillCache[u][1].icon_hash = IconHashAt(u, v)
  /\ \A p \in Procs :
        IsGetUser(p) /\ pc[p] = "done" /\ resp[p].status = 200 /\ after[p] > 0 =>
          \E v \in after[p]..Len(hist) :
            resp[p].user.icon_hash = IconHashAt(resp[p].user.id, v)

\* C10: no postIconHandler and no getUserHandler answers 500 when all that
\* failed under it was redis.
C10_CacheFailureNotSurfaced ==
  \A p \in Procs :
    (IsPostIcon(p) \/ IsGetUser(p)) /\ pc[p] = "done" /\ resp[p].status = 500 =>
      Did(p, "store_fail") \/ Did(p, "file_fail")

\* C11: a statistics request whose entity is missing from the ranking computed
\* for it never gets a successful response: a 200 is given only when the
\* requested user name, or stream id, is in the ranking that was used.
C11_AnomalyIsError ==
  /\ ret.op = "getUserStatistics" /\ ret.resp.status = 200 =>
        \E i \in DOMAIN ret.ranking : ret.ranking[i].Username = ret.username
  /\ ret.op = "getLivestreamStatistics" /\ ret.resp.status = 200 =>
        \E i \in DOMAIN ret.ranking : ret.ranking[i].LivestreamID = ret.livestream_id

\* C12: on a ranking of N entries in strictly ascending order, the scan gives
\* N - p for the target at 0-based position p, and N + 1 for a target that is
\* not in the ranking.
C12_RankDerivation ==
  /\ ret.op = "userRank" =>
        LET N == Len(ret.ranking)
            at == {i \in 1..N : ret.ranking[i].Username = ret.target}
        IN IF at = {} THEN ret.rank = N + 1
           ELSE \A i \in at : ret.rank = N - (i - 1)
  /\ ret.op = "livestreamRank" =>
        LET N == Len(ret.ranking)
            at == {i \in 1..N : ret.ranking[i].LivestreamID = ret.target}
        IN IF at = {} THEN ret.rank = N + 1
           ELSE \A i \in at : ret.rank = N - (i - 1)

\* C12 witness: entries 1 and 2 of equal score stand in the order [1, 2], and
\* the scan for 1 has given rank 2
C12_Witness ==
  /\ ret.op = "userRank"
  /\ ret.ranking = <<[Username |-> 1, Score |-> 1], [Username |-> 2, Score |-> 1]>>
  /\ ret.target = 1
  /\ ret.rank = 2

\* C17: the ranking getLivestreamStatisticsHandler builds has exactly one
\* entry per stream of the store, and the score of each entry is the number of
\* reactions on the stream plus the sum of the tips of its livecomments, a
\* stream with no reactions or no livecomments getting zero for that part.
C17_LivestreamScore ==
  ret.op = "getLivestreamStatistics" /\ ret.resp.status = 200 =>
    /\ Len(ret.ranking) = Cardinality(db.livestreams)
    /\ \A l \in db.livestreams :
          \E i \in DOMAIN ret.ranking : ret.ranking[i].LivestreamID = l.id
    /\ \A i \in DOMAIN ret.ranking :
          LET id == ret.ranking[i].LivestreamID
              rs == {r \in db.reactions : r.livestream_id = id}
              cs == {c \in db.livecomments : c.livestream_id = id}
          IN ret.ranking[i].Score = Cardinality(rs) + SumOf([c \in cs |-> c.tip], cs)

\* C17 witness: a ranking built over a store where one stream has reactions
\* and no livecomments, and another has livecomments and no reactions
C17_Witness ==
  /\ ret.op = "getLivestreamStatistics" /\ ret.resp.status = 200
  /\ \E l \in db.livestreams :
        ReactionsOf(db, l.id) # {} /\ LivecommentsOf(db, l.id) = {}
  /\ \E l \in db.livestreams :
        ReactionsOf(db, l.id) = {} /\ LivecommentsOf(db, l.id) # {}
  /\ \E i \in DOMAIN ret.ranking : ret.ranking[i].Score > 1

\* C20: the favorite emoji getUserStatisticsHandler returns is, among the
\* emoji names of the reactions on the user's streams, one of the highest
\* count, and the greatest name among those of the highest count; with no
\* reaction on the user's streams it is the empty string, in a 200 response.
C20_FavoriteEmoji ==
  ret.op = "getUserStatistics" /\ ret.resp.status = 200 =>
    LET u == CHOOSE x \in db.users : x.name = ret.username
        rs == ReactionsOnStreamsOf(db, u.id)
        count == [e \in EmojiNames |-> Cardinality({r \in rs : r.emoji_name = e})]
        fav == ret.resp.favorite_emoji
    IN IF rs = {} THEN fav = EmptyString
       ELSE /\ fav \in EmojiNames
            /\ count[fav] > 0
            /\ \A f \in EmojiNames : count[f] <= count[fav]
            /\ \A f \in EmojiNames : count[f] = count[fav] => f <= fav

\* C20 witness: the favorite returned has the highest count although a
\* greater name has reactions too
C20_Witness ==
  /\ ret.op = "getUserStatistics" /\ ret.resp.status = 200
  /\ \E r \in ReactionsOfUsername(db, ret.username) :
        r.emoji_name > ret.resp.favorite_emoji
  /\ ret.resp.favorite_emoji # EmptyString

\* C18: two computations of the ranking of one domain on the same store give
\* the same entries in the same order, whatever order the queries give their
\* rows in and whatever sort.Sort does with entries neither of which is less.
C18_RankingIdempotent ==
  ret.op \in {"userRankingTwice", "livestreamRankingTwice"} => ret.first = ret.second

\* C18 witness: a user ranking computed twice in which two entries have the
\* same score
C18_Witness ==
  /\ ret.op = "userRankingTwice"
  /\ Len(ret.first) >= 2
  /\ ret.first[1].Score = ret.first[2].Score
  /\ ret.first[1].Score > 0

\* C13: in a fillUserResponse that missed userFillCache, a redis read that
\* succeeds resolves the icon hash to the value redis holds; when the read
\* fails or finds no key, the hash is resolved to the icon_hash of the user's
\* row in the icons table as the transaction reads it, and to fallbackHash
\* when the table has no row for the user; the User built carries the hash
\* resolved.
C13_IconHashFallback ==
  [][\A p \in Procs :
       /\ pc[p] = "fill_redis" /\ pc'[p] = "fill_store" =>
             /\ redis[userModel[p][1].id] # <<>>
             /\ iconHash'[p] = redis[userModel[p][1].id]
       /\ pc[p] = "fill_icon" /\ pc'[p] = "fill_store" =>
             LET rows == {i \in TxView(tx[p]).icons : i.user_id = userModel[p][1].id}
             IN IF rows = {} THEN iconHash'[p] = <<fallbackHash>>
                ELSE \E i \in rows : iconHash'[p] = <<i.icon_hash>>
       /\ pc[p] = "fill_store" /\ pc'[p] # "fill_store" =>
             filled'[p][1].icon_hash = iconHash[p][1]]_vars

\* C13 witness: redis could not be reached, the icons table has a row for the
\* user, and the hash resolved is the one of that row
C13_Witness ==
  \E p \in Procs :
    /\ pc[p] = "fill_store"
    /\ Did(p, "redis_fail")
    /\ \E i \in TxView(tx[p]).icons :
          /\ i.user_id = userModel[p][1].id
          /\ i.icon_hash # fallbackHash
          /\ iconHash[p] = <<i.icon_hash>>

IsRegister(p) == arg[p].op = "register"
IsGetUserByID(p) == arg[p].op = "getUserByID"

\* C14: what userCache holds for an id, and what a getUser call returns for
\* it, are the fields the store holds for that id: after userCache.Delete(id)
\* and the commit of the write of the user's row, getUser(id) gives the row
\* written and nothing cached earlier.
C14_EntityCacheCorrect ==
  /\ \A u \in UserIDs : userCache[u] # <<>> =>
        userCache[u][1] \in db.users /\ userCache[u][1].id = u
  /\ \A p \in Procs : IsGetUserByID(p) /\ pc[p] = "done" /\ resp[p].status = 200 =>
        resp[p].userModel \in db.users /\ resp[p].userModel.id = arg[p].userID

\* C14 witness: registerHandler has deleted the entry of the new id and then
\* committed the user's row, and a getUser of that id has returned the row
C14_Witness ==
  \E p \in Procs : \E q \in Procs :
    /\ IsRegister(q) /\ pc[q] = "done"
    /\ Did(q, "userCache.Delete") /\ Did(q, "commit")
    /\ IsGetUserByID(p) /\ pc[p] = "done" /\ resp[p].status = 200
    /\ arg[p].userID = userModel[q][1].id
    /\ resp[p].userModel = userModel[q][1]

\* C15: a write path deletes from userCache and userFillCache only once its
\* transaction has committed, and before the commit of registerHandler no
\* cache holds an entry for the id it writes.
C15_InvalidateAfterCommit ==
  \A p \in Procs : IsRegister(p) \/ IsPostIcon(p) =>
    /\ Did(p, "userCache.Delete") \/ Did(p, "userFillCache.Delete") => Did(p, "commit")
    /\ IsRegister(p) /\ userModel[p] # <<>> /\ ~Did(p, "commit") =>
          /\ userCache[userModel[p][1].id] = <<>>
          /\ userFillCache[userModel[p][1].id] = <<>>
          /\ themeCache[userModel[p][1].id] = <<>>

\* C16: a theme query that fails, or finds no row, ends the call with an
\* error and leaves themeCache and userFillCache as they were; a user query
\* of getUser that fails, or finds no row, ends the call with an error and
\* leaves userCache as it was; an icon query that fails with another error
\* than no rows ends fillUserResponse with an error and leaves userFillCache
\* as it was.
C16_StoreFailurePropagates ==
  [][\A p \in Procs :
       LET failed == /\ ~Did(p, "store_fail")
                     /\ \E i \in DOMAIN trace'[p] : trace'[p][i] = "store_fail"
           left == pc'[p] # pc[p]
           error == pc'[p] = "done" /\ resp'[p].status = 500
       IN /\ /\ pc[p] = "theme_query"
             /\ left
             /\ failed \/ ThemeRowsOf(TxView(tx[p]), userModel[p][1].id) = {}
             => error /\ themeCache' = themeCache /\ userFillCache' = userFillCache
          /\ /\ pc[p] = "u_query"
             /\ left
             /\ failed \/ UserByID(TxView(tx[p]), arg[p].userID) = {}
             => error /\ userCache' = userCache
          /\ pc[p] = "fill_icon" /\ failed
             => error /\ userFillCache' = userFillCache]_vars

\* C16 witness: a getUser whose query found no row has ended with an error
\* and userCache holds nothing for the id
C16_Witness ==
  \E p \in Procs :
    /\ IsGetUserByID(p) /\ pc[p] = "done" /\ resp[p].status = 500
    /\ Did(p, "store_fail")
    /\ userCache[arg[p].userID] = <<>>
    /\ UserByID(db, arg[p].userID) = {}

EntityAbsent(p) ==
  IF IsUserRequest(p)
  THEN UserByName(TxView(tx[p]), arg[p].username) = {}
  ELSE \A l \in TxView(tx[p]).livestreams : l.id # arg[p].livestream_id

LookupFails(p) == UserStatisticsGetUserFails(p) \/ LivestreamStatisticsGetFails(p)

\* C21: the step in which a statistics handler looks its entity up ends the
\* request with 500 and nothing else when the lookup fails, with 400 and
\* nothing else when the lookup finds no row, and goes on otherwise; a request
\* ended by its lookup has computed no ranking, started no singleflight call
\* and joined none.
C21_NotFoundVersusFailure ==
  [][\A p \in Procs :
       pc[p] \in {"us_user", "ls_get"} /\ pc'[p] # pc[p] =>
         /\ LookupFails(p) => pc'[p] = "done" /\ resp'[p] = HTTPError(500)
         /\ ~LookupFails(p) /\ EntityAbsent(p) =>
               pc'[p] = "done" /\ resp'[p] = HTTPError(400)
         /\ ~LookupFails(p) /\ ~EntityAbsent(p) => pc'[p] # "done"
         /\ pc'[p] = "done" =>
               /\ rankRes'[p] = <<>> /\ myCall'[p] = 0
               /\ UNCHANGED <<sfVars, fnTx>>]_vars

\* C21 witness: a user request for a name with no row is done with 400 and a
\* stream request whose lookup failed is done with 500, neither with a ranking
C21_Witness ==
  \E p, q \in Procs :
    /\ IsUserRequest(p) /\ arg[p].username = NoSuchUsername
    /\ pc[p] = "done" /\ resp[p] = HTTPError(400) /\ rankRes[p] = <<>>
    /\ IsLivestreamRequest(q)
    /\ pc[q] = "done" /\ resp[q] = HTTPError(500) /\ rankRes[q] = <<>>

\* C22: when a getUserHandler (its fillUserResponse) and a postIconHandler
\* that answered 201 for the same user have both returned and no request is
\* running, userFillCache holds for that user no entry or an entry with the
\* icon hash of the committed store, and userCache no entry or the user's row.
C22_ReadRacingIconWrite ==
  \A r, w \in Procs :
    /\ IsGetUser(r) /\ pc[r] = "done"
    /\ IsPostIcon(w) /\ pc[w] = "done" /\ resp[w].status = 201
    /\ \A q \in Procs : pc[q] \in {"idle", "done"}
    => LET u == arg[w].userID IN
         /\ userFillCache[u] # <<>> =>
               userFillCache[u][1].icon_hash = IconHashAt(u, Len(hist))
         /\ userCache[u] # <<>> => userCache[u][1] \in db.users

\* C23: when no postIconHandler is running and every postIconHandler that ran
\* for a user answered 201, redis holds under the user's key the icon_hash of
\* the icon row committed last for the user.
C23_MirrorAgreesWithStore ==
  \A u \in UserIDs :
    /\ \E w \in Procs : IsPostIcon(w) /\ arg[w].userID = u
    /\ \A w \in Procs : IsPostIcon(w) /\ arg[w].userID = u =>
          pc[w] = "done" /\ resp[w].status = 201
    => redis[u] = <<IconHashAt(u, Len(hist))>>

\* C24: a registerHandler that has returned without having committed leaves
\* no entry for the id it inserted in userFillCache or in themeCache.
C24_CachesHoldCommittedState ==
  \A p \in Procs :
    IsRegister(p) /\ pc[p] = "done" /\ userModel[p] # <<>> /\ ~Did(p, "commit") =>
      /\ userFillCache[userModel[p][1].id] = <<>>
      /\ themeCache[userModel[p][1].id] = <<>>

\* a request whose getUserTheme call has returned a ThemeModel
ThemeReturned(p) ==
  themeModel[p] # <<>> /\ pc[p] \notin {"theme_store", "theme_wlocked"}

\* C25: a request holds the read lock of themeCache only between RLock and
\* the read of the map and the write lock only between Lock and the store, so
\* neither while it queries the store nor after getUserTheme returned, and a
\* writer excludes everyone else; with the theme rows unchanged every call
\* returns the theme row of its owner id, which is then what the cache holds
\* for the id; a hit returns the cached value and goes to no query; the store
\* into the map changes the entry of the owner id alone, and no other step
\* changes the map.
C25_ThemeCacheProtocol ==
  /\ [](/\ \A p \in Procs :
            /\ p \in themeMutex.readers <=> pc[p] = "theme_rlocked"
            /\ p \in themeMutex.writer <=> pc[p] = "theme_wlocked"
        /\ themeMutex.writer # {} =>
              themeMutex.readers = {} /\ Cardinality(themeMutex.writer) = 1
        /\ \A u \in UserIDs : themeCache[u] # <<>> =>
              themeCache[u][1] \in ThemeRowsOf(db, u)
        /\ \A p \in Procs : ThemeReturned(p) =>
              /\ themeModel[p][1] \in ThemeRowsOf(db, userModel[p][1].id)
              /\ themeCache[userModel[p][1].id] = themeModel[p]
              /\ \A q \in Procs :
                    ThemeReturned(q) /\ userModel[q][1].id = userModel[p][1].id =>
                      themeModel[q] = themeModel[p])
  /\ [][/\ \A p \in Procs :
            /\ pc[p] = "theme_rlocked" /\ pc'[p] # pc[p]
                 /\ themeCache[userModel[p][1].id] # <<>> =>
                   /\ pc'[p] = "fill_redis"
                   /\ themeModel'[p] = themeCache[userModel[p][1].id]
                   /\ tx' = tx
            /\ pc[p] = "theme_wlocked" /\ pc'[p] # pc[p] =>
                   themeCache' = [themeCache EXCEPT ![userModel[p][1].id] = themeModel[p]]
        /\ (\A p \in Procs : ~(pc[p] = "theme_wlocked" /\ pc'[p] # pc[p])) =>
              themeCache' = themeCache]_vars

\* C25 witness: two getUserTheme calls for one owner id have both missed and
\* queried; one holds the write lock and the other waits for it
C25_Witness ==
  \E p, q \in Procs :
    /\ p # q
    /\ pc[p] = "theme_wlocked" /\ pc[q] = "theme_store"
    /\ userModel[p][1].id = userModel[q][1].id
    /\ themeCache[userModel[p][1].id] = <<>>

====
